---- MODULE Spec2Model ----
(***************************************************************************)
(* Discovery-and-queue engine of Reddit-CBL.                               *)
(*                                                                         *)
(*   producer:  reddit_subreddit_scraper.py  (scrape_subreddit,            *)
(*              parse_score, parse_reddit_timestamp, insert_reddit_post)   *)
(*   consumer:  reddit_commenter/jade_commenter.py (run_commenter_batch)   *)
(*              reddit_commenter/db.py (fetch_next_posts_to_comment,       *)
(*              mark_commented, mark_failed)                               *)
(*                                                                         *)
(* Both sides share the table reddit_posts.  Text is modelled as a         *)
(* sequence of one-character strings, instants as integer seconds.         *)
(***************************************************************************)
EXTENDS Integers, Sequences, FiniteSets, TLC

(***************************************************************************)
(* Text helpers (Python str methods used by the scraper).                  *)
(***************************************************************************)

\* Python None; distinct from every text because its only element is not a
\* single character.
None == <<"None">>

\* `not x` for an Optional[str]: None and "" are falsy.
Falsy(s) == s = None \/ s = <<>>

IsSpace(ch) == ch \in {" ", "\t", "\n"}

RECURSIVE LStrip(_)
LStrip(s) == IF s # <<>> /\ IsSpace(Head(s)) THEN LStrip(Tail(s)) ELSE s

RECURSIVE RStrip(_)
RStrip(s) ==
    IF s # <<>> /\ IsSpace(s[Len(s)]) THEN RStrip(SubSeq(s, 1, Len(s) - 1)) ELSE s

\* A strip that strips nothing.
Strip_nothing(s) == s

\* str.strip()
Strip(s) == RStrip(LStrip(s))

UpperToLower ==
    [ch \in {"A", "B", "C", "E", "F", "I", "K", "M", "N", "O", "P", "S", "T", "V", "Y"} |->
        CASE ch = "A" -> "a" [] ch = "B" -> "b" [] ch = "C" -> "c"
          [] ch = "E" -> "e" [] ch = "F" -> "f" [] ch = "I" -> "i"
          [] ch = "K" -> "k" [] ch = "M" -> "m" [] ch = "N" -> "n"
          [] ch = "O" -> "o" [] ch = "P" -> "p" [] ch = "S" -> "s"
          [] ch = "T" -> "t" [] ch = "V" -> "v" [] ch = "Y" -> "y"]

\* str.lower() on the letters that occur in the modelled inputs.
Lower(s) ==
    [i \in 1..Len(s) |-> IF s[i] \in DOMAIN UpperToLower THEN UpperToLower[s[i]] ELSE s[i]]

\* str.startswith / str.endswith
StartsWith(s, p) == Len(s) >= Len(p) /\ SubSeq(s, 1, Len(p)) = p
EndsWith(s, p) == Len(s) >= Len(p) /\ SubSeq(s, Len(s) - Len(p) + 1, Len(s)) = p

\* Index of the first occurrence of p in s, 0 when there is none (p non-empty).
Find(s, p) ==
    LET hits == {i \in 1..(Len(s) - Len(p) + 1) : SubSeq(s, i, i + Len(p) - 1) = p}
    IN  IF hits = {} THEN 0 ELSE CHOOSE i \in hits : \A j \in hits : i <= j

\* `p in s`
Contains(s, p) == Find(s, p) # 0

\* s.replace(p, ""): every non-overlapping occurrence, left to right.
RECURSIVE Remove(_, _)
Remove(s, p) ==
    LET i == Find(s, p)
    IN  IF i = 0 THEN s
        ELSE SubSeq(s, 1, i - 1) \o Remove(SubSeq(s, i + Len(p), Len(s)), p)

\* The character U+2022 (the bullet Reddit shows for a hidden score).
Bullet == "U+2022"

Digits == {"0", "1", "2", "3", "4", "5", "6", "7", "8", "9"}

DigitVal(ch) ==
    CASE ch = "0" -> 0 [] ch = "1" -> 1 [] ch = "2" -> 2 [] ch = "3" -> 3
      [] ch = "4" -> 4 [] ch = "5" -> 5 [] ch = "6" -> 6 [] ch = "7" -> 7
      [] ch = "8" -> 8 [] ch = "9" -> 9

AllDigits(s) == \A i \in 1..Len(s) : s[i] \in Digits

RECURSIVE DecVal(_)
DecVal(s) == IF s = <<>> THEN 0 ELSE 10 * DecVal(SubSeq(s, 1, Len(s) - 1)) + DigitVal(s[Len(s)])

RECURSIVE Pow10(_)
Pow10(n) == IF n = 0 THEN 1 ELSE 10 * Pow10(n - 1)

(***************************************************************************)
(* float(text): the decimal grammar [sign] digits [. digits] | [sign] .    *)
(* digits, and the words inf / infinity / nan.  A finite value is kept     *)
(* exactly as sign * mant / 10^frac.  Anything else is a ValueError.       *)
(* (Exponents and digit-group underscores do not occur in the inputs.)     *)
(***************************************************************************)
PyFloat(text) ==
    LET s    == Strip(text)
        neg  == s # <<>> /\ Head(s) = "-"
        body == IF s # <<>> /\ Head(s) \in {"-", "+"} THEN Tail(s) ELSE s
        low  == Lower(body)
        dot  == Find(body, <<".">>)
        ip   == IF dot = 0 THEN body ELSE SubSeq(body, 1, dot - 1)
        fp   == IF dot = 0 THEN <<>> ELSE SubSeq(body, dot + 1, Len(body))
    IN  IF low \in {<<"i", "n", "f">>, <<"i", "n", "f", "i", "n", "i", "t", "y">>}
        THEN [kind |-> "inf", neg |-> neg, mant |-> 0, frac |-> 0]
        ELSE IF low = <<"n", "a", "n">>
        THEN [kind |-> "nan", neg |-> neg, mant |-> 0, frac |-> 0]
        ELSE IF AllDigits(ip) /\ AllDigits(fp) /\ Len(ip) + Len(fp) > 0
        THEN [kind |-> "fin", neg |-> neg, mant |-> DecVal(ip \o fp), frac |-> Len(fp)]
        ELSE [kind |-> "ValueError", neg |-> FALSE, mant |-> 0, frac |-> 0]

\* int(value * multiplier): truncation toward zero.
IntOfProduct(f, multiplier) ==
    LET q == (f.mant * multiplier) \div Pow10(f.frac)
    IN  IF f.neg THEN 0 - q ELSE q

Ok(v) == [exc |-> "none", value |-> v]
Raised(e) == [exc |-> e, value |-> 0]

\* parse_score: the returned integer, or the exception that escapes.
parse_score(score_attr) ==
    IF Falsy(score_attr) THEN Ok(0)
    ELSE
    LET cleaned0 == Lower(Strip(score_attr))
    IN  IF cleaned0 = <<>> \/ cleaned0 \in {<<Bullet>>, <<"-">>} THEN Ok(0)
        ELSE
        LET c1 == Remove(Remove(cleaned0, <<"p", "o", "i", "n", "t", "s">>),
                         <<"p", "o", "i", "n", "t">>)
            c2 == Strip(Remove(Remove(c1, <<"v", "o", "t", "e", "s">>),
                               <<"v", "o", "t", "e">>))
            multiplier == IF EndsWith(c2, <<"k">>) THEN 1000
                          ELSE IF EndsWith(c2, <<"m">>) THEN 1000000 ELSE 1
            cleaned == IF multiplier = 1 THEN c2 ELSE SubSeq(c2, 1, Len(c2) - 1)
            f == PyFloat(cleaned)
        IN  CASE f.kind = "fin" -> Ok(IntOfProduct(f, multiplier))
              [] f.kind = "inf" -> Raised("OverflowError")
              [] f.kind = "nan" -> Ok(0)
              [] OTHER -> Ok(0)

(***************************************************************************)
(* Timestamps.  A timestamp text is [form, dt, sfx]:                       *)
(*   form = "none"   the attribute is absent (None)                        *)
(*   form = "empty"  the empty string                                      *)
(*   form = "iso"    an ISO date-time part denoting the naive second dt,   *)
(*                   followed by the text sfx (zone designator)            *)
(*   form = "text"   text that is no date-time at all                      *)
(*   form = "epoch"  decimal digits: the seconds from the epoch to dt      *)
(*   form = "ago"    a relative age ("1 hour ago") that denotes dt when    *)
(*                   it is read                                            *)
(* The calendar arithmetic of datetime.fromisoformat is library code and   *)
(* is abstracted to dt; the suffix handling is the scraper's own.          *)
(***************************************************************************)
Sfx_Z == <<"Z">>
Sfx_0000 == <<"+", "0", "0", "0", "0">>
Sfx_00_00 == <<"+", "0", "0", ":", "0", "0">>
Sfx_01_00 == <<"+", "0", "1", ":", "0", "0">>
Sfx_0100 == <<"+", "0", "1", "0", "0">>
Sfx_bad == <<"x">>

NoTs == [form |-> "none", dt |-> 0, sfx |-> <<>>]
EmptyTs == [form |-> "empty", dt |-> 0, sfx |-> <<>>]
TextTs == [form |-> "text", dt |-> 0, sfx |-> <<>>]
IsoTs(dt, sfx) == [form |-> "iso", dt |-> dt, sfx |-> sfx]
EpochTs(dt) == [form |-> "epoch", dt |-> dt, sfx |-> <<>>]
AgoTs(dt) == [form |-> "ago", dt |-> dt, sfx |-> <<>>]

\* `not timestamp_str`
FalsyTs(ts) == ts.form \in {"none", "empty"}

NoDatetime == [ok |-> FALSE, value |-> 0]
Datetime(v) == [ok |-> TRUE, value |-> v]

\* The UTC offset, in seconds, of a "+HH:MM" / "-HH:MM" designator.
IsColonOffset(z) ==
    /\ Len(z) = 6
    /\ z[1] \in {"+", "-"}
    /\ z[4] = ":"
    /\ AllDigits(<<z[2], z[3], z[5], z[6]>>)

OffsetSeconds(z) ==
    LET secs == DecVal(<<z[2], z[3]>>) * 3600 + DecVal(<<z[5], z[6]>>) * 60
    IN  IF z[1] = "-" THEN 0 - secs ELSE secs

\* A "+HHMM" / "-HHMM" designator, which fromisoformat reads like the one
\* with the colon (Python 3.11).
IsPlainOffset(z) ==
    /\ Len(z) = 5
    /\ z[1] \in {"+", "-"}
    /\ AllDigits(<<z[2], z[3], z[4], z[5]>>)

WithColon(z) == <<z[1], z[2], z[3], ":", z[4], z[5]>>

\* datetime.fromisoformat followed by the conversion to naive UTC.
fromisoformat(ts) ==
    IF ts.form # "iso" THEN NoDatetime
    ELSE IF ts.sfx = <<>> THEN Datetime(ts.dt)
    ELSE IF IsColonOffset(ts.sfx) THEN Datetime(ts.dt - OffsetSeconds(ts.sfx))
    ELSE IF IsPlainOffset(ts.sfx) THEN Datetime(ts.dt - OffsetSeconds(WithColon(ts.sfx)))
    ELSE NoDatetime

parse_reddit_timestamp(timestamp_str) ==
    IF FalsyTs(timestamp_str) THEN NoDatetime
    ELSE
    LET z == RStrip(timestamp_str.sfx)
        repaired ==
            IF EndsWith(z, Sfx_Z)
            THEN SubSeq(z, 1, Len(z) - 1) \o Sfx_00_00
            ELSE IF EndsWith(z, Sfx_0000)
            THEN SubSeq(z, 1, Len(z) - 5) \o Sfx_00_00
            ELSE z
    IN  fromisoformat([timestamp_str EXCEPT !.sfx = repaired])

(***************************************************************************)
(* Post id and URL.                                                        *)
(***************************************************************************)
Origin == <<"h", "t", "t", "p", "s", ":", "/", "/", "w", "w", "w", ".", "r", "e", "d", "d", "i", "t", ".", "c", "o", "m">>
Marker == <<"/", "c", "o", "m", "m", "e", "n", "t", "s", "/">>
Prefix_t3 == <<"t", "3", "_">>

\* An extraction that falls back to the url itself as the id.
extract_post_id_from_url_or_url(url) ==
    IF Contains(url, Marker)
    THEN LET i    == Find(url, Marker)
             rest == SubSeq(url, i + Len(Marker), Len(url))
             k    == Find(rest, <<"/">>)
         IN  IF k = 0 THEN rest ELSE SubSeq(rest, 1, k - 1)
    ELSE url

\* url.split("/comments/")[1].split("/")[0], or None
extract_post_id_from_url(url) ==
    IF Contains(url, Marker)
    THEN LET i    == Find(url, Marker)
             rest == SubSeq(url, i + Len(Marker), Len(url))
             \* [1] of the outer split ends at the next marker, if any
             j    == Find(rest, Marker)
             seg  == IF j = 0 THEN rest ELSE SubSeq(rest, 1, j - 1)
             k    == Find(seg, <<"/">>)
         IN  IF k = 0 THEN seg ELSE SubSeq(seg, 1, k - 1)
    ELSE None

POST_MAX_AGE_HOURS == 4

SecondsPerHour == 3600

\* An age filter that also drops a post exactly at the horizon.
TooOld_at_horizon(utcnow, datetime_value) ==
    utcnow - datetime_value >= POST_MAX_AGE_HOURS * SecondsPerHour

\* age_hours > POST_MAX_AGE_HOURS, with age_hours = seconds / 3600.0
TooOld(utcnow, datetime_value) ==
    utcnow - datetime_value > POST_MAX_AGE_HOURS * SecondsPerHour

(***************************************************************************)
(* One iteration of the loop over the posts of a page: everything up to    *)
(* the call of insert_reddit_post.  raw is the attribute bag of one        *)
(* <shreddit-post>; the result is the verdict and the insert arguments.    *)
(***************************************************************************)
NoArgs ==
    [subreddit |-> "", post_id |-> <<>>, post_url |-> <<>>, score |-> 0, created_at |-> 0]

Verdict(v, args) == [verdict |-> v, args |-> args]

ProcessPost(subreddit, raw, utcnow) ==
    IF Falsy(raw.permalink) \/ Falsy(raw.title) THEN Verdict("no_fields", NoArgs)
    ELSE IF Strip(raw.title) = <<>> THEN Verdict("no_title", NoArgs)
    ELSE
    LET post_url == IF StartsWith(raw.permalink, <<"/">>)
                    THEN Origin \o raw.permalink
                    ELSE raw.permalink
        post_id  == IF ~Falsy(raw.id) /\ StartsWith(raw.id, Prefix_t3)
                    THEN SubSeq(raw.id, 4, Len(raw.id))
                    ELSE IF ~Falsy(raw.id) THEN raw.id
                    ELSE extract_post_id_from_url(post_url)
        first    == IF ~FalsyTs(raw.created)
                    THEN parse_reddit_timestamp(raw.created)
                    ELSE NoDatetime
        \* the fallback: <faceplate-timeago><time datetime=...>
        datetime_value ==
                    IF first.ok THEN first
                    ELSE IF ~FalsyTs(raw.timeago)
                    THEN parse_reddit_timestamp(raw.timeago)
                    ELSE NoDatetime
        score    == parse_score(raw.score)
    IN  IF Falsy(post_id) THEN Verdict("no_id", NoArgs)
        ELSE IF ~datetime_value.ok THEN Verdict("no_timestamp", NoArgs)
        ELSE IF TooOld(utcnow, datetime_value.value) THEN Verdict("too_old", NoArgs)
        ELSE IF score.exc # "none" THEN Verdict("error", NoArgs)
        ELSE Verdict("valid",
                     [subreddit |-> subreddit, post_id |-> post_id, post_url |-> post_url,
                      score |-> score.value, created_at |-> datetime_value.value])

(***************************************************************************)
(* The table reddit_posts: a sequence of rows, the serial id of a row      *)
(* being its position.  post_id carries the unique index that ON CONFLICT  *)
(* names; title is never written by the scraper and stays NULL.            *)
(***************************************************************************)
\* A row that is born commented.
Row_commented(id, args, at) ==
    [id |-> id, subreddit |-> args.subreddit, post_id |-> args.post_id,
     post_url |-> args.post_url, title |-> None, score |-> args.score,
     created_at |-> args.created_at, seen_at |-> at, commented |-> TRUE]

Row(id, args, at) ==
    [id |-> id, subreddit |-> args.subreddit, post_id |-> args.post_id,
     post_url |-> args.post_url, title |-> None, score |-> args.score,
     created_at |-> args.created_at, seen_at |-> at, commented |-> FALSE]

\* An upsert: ON CONFLICT (post_id) DO UPDATE with the new values.
insert_reddit_post_overwrite(table, args, at) ==
    IF \E i \in DOMAIN table : table[i].post_id = args.post_id
    THEN [i \in DOMAIN table |->
             IF table[i].post_id = args.post_id THEN Row(table[i].id, args, at) ELSE table[i]]
    ELSE Append(table, Row(Len(table) + 1, args, at))

\* An INSERT into a table without the unique index on post_id.
insert_reddit_post_append(table, args, at) ==
    Append(table, Row(Len(table) + 1, args, at))

\* INSERT ... VALUES (..., NOW(), FALSE) ON CONFLICT (post_id) DO NOTHING
insert_reddit_post(table, args, at) ==
    IF \E i \in DOMAIN table : table[i].post_id = args.post_id
    THEN table
    ELSE Append(table, Row(Len(table) + 1, args, at))

\* The UPDATE without its WHERE clause.
mark_commented_every_row(table, row_id) ==
    [i \in DOMAIN table |-> [table[i] EXCEPT !.commented = TRUE]]

\* UPDATE reddit_posts SET commented = TRUE WHERE id = $1
mark_commented(table, row_id) ==
    [i \in DOMAIN table |->
        IF table[i].id = row_id THEN [table[i] EXCEPT !.commented = TRUE] ELSE table[i]]

\* A failure that retires the row: SET commented = TRUE.
mark_failed_retires(table, row_id) ==
    [i \in DOMAIN table |->
        IF table[i].id = row_id THEN [table[i] EXCEPT !.commented = TRUE] ELSE table[i]]

\* UPDATE reddit_posts SET commented = FALSE WHERE id = $1
mark_failed(table, row_id) ==
    [i \in DOMAIN table |->
        IF table[i].id = row_id THEN [table[i] EXCEPT !.commented = FALSE] ELSE table[i]]

\* WHERE commented = FALSE, without the age condition.
Eligible_any_age(row, at, post_max_age_hours) ==
    row.commented = FALSE

\* WHERE commented = FALSE AND created_at > NOW() - INTERVAL '1 hour' * $1
Eligible(row, at, post_max_age_hours) ==
    /\ row.commented = FALSE
    /\ row.created_at > at - post_max_age_hours * SecondsPerHour

Min(a, b) == IF a <= b THEN a ELSE b

\* The SELECT without its LIMIT clause.
fetch_next_posts_to_comment_no_limit(table, at, limit, post_max_age_hours) ==
    LET elig == {i \in DOMAIN table : Eligible(table[i], at, post_max_age_hours)}
        n    == Cardinality(elig)
        ordered == {q \in [1..n -> elig] :
                      /\ \A i, j \in 1..n : i # j => q[i] # q[j]
                      /\ \A i, j \in 1..n : i < j => table[q[i]].seen_at >= table[q[j]].seen_at}
    IN  {[k \in 1..n |-> table[q[k]]] : q \in ordered}

\* SELECT ... ORDER BY seen_at DESC LIMIT $2: every list the query may
\* return.  Rows with equal seen_at come in an order the database picks.
fetch_next_posts_to_comment(table, at, limit, post_max_age_hours) ==
    LET elig == {i \in DOMAIN table : Eligible(table[i], at, post_max_age_hours)}
        n    == Cardinality(elig)
        ordered == {q \in [1..n -> elig] :
                      /\ \A i, j \in 1..n : i # j => q[i] # q[j]
                      /\ \A i, j \in 1..n : i < j => table[q[i]].seen_at >= table[q[j]].seen_at}
    IN  {[k \in 1..Min(limit, n) |-> table[q[k]]] : q \in ordered}

(***************************************************************************)
(* What the content source can show.  One entry is the attribute bag of a  *)
(* <shreddit-post> on the page of a subreddit, without its timestamps.     *)
(***************************************************************************)
Id_t3_ab == <<"t", "3", "_", "a", "b">>
Id_ab == <<"a", "b">>
Link_g_ab == <<"/", "r", "/", "g", "/", "c", "o", "m", "m", "e", "n", "t", "s", "/", "a", "b", "/", "x">>
Link_abs_ab == <<"h", "t", "t", "p", "s", ":", "/", "/", "r", "e", "d", "d", ".", "i", "t", "/", "a", "b">>
Link_g_cd == <<"/", "r", "/", "g", "/", "c", "o", "m", "m", "e", "n", "t", "s", "/", "c", "d", "/", "y">>
Link_nomarker == <<"/", "r", "/", "g", "/">>
Link_noid == <<"/", "r", "/", "g", "/", "c", "o", "m", "m", "e", "n", "t", "s", "/">>
Title_Hi == <<"H", "i">>
Title_Yo == <<" ", "Y", "o", " ">>
Title_blank == <<" ", " ">>
Score_301 == <<"3", "0", "1">>
Score_1_5k == <<"1", ".", "5", "k">>
Score_neg5 == <<"-", "5">>
Score_abc == <<"a", "b", "c">>
Score_dash == <<"-">>
Score_inf == <<"i", "n", "f">>

Bag(sub, id, permalink, title, score) ==
    [subreddit |-> sub, id |-> id, permalink |-> permalink, title |-> title, score |-> score]

\* Post ab as r/GirlsWithGuns shows it, the same post as r/CountryGirls
\* shows it (bare id, absolute link, another score), and post cd, whose id
\* is only in its link.
Bag_ab == Bag("GirlsWithGuns", Id_t3_ab, Link_g_ab, Title_Hi, Score_1_5k)
Bag_ab_again == Bag("CountryGirls", Id_ab, Link_abs_ab, Title_Hi, Score_neg5)
Bag_cd == Bag("GirlsWithGuns", None, Link_g_cd, Title_Yo, None)

\* The post of the end-to-end example: id "abc123", title "Hello", link
\* "/r/test/comments/abc123/hello", score "1.2k".
Id_abc123 == <<"a", "b", "c", "1", "2", "3">>
Link_abc123 ==
    <<"/", "r", "/", "t", "e", "s", "t", "/", "c", "o", "m", "m", "e", "n", "t", "s", "/",
      "a", "b", "c", "1", "2", "3", "/", "h", "e", "l", "l", "o">>
Bag_abc123 ==
    Bag("test", Id_abc123, Link_abc123, <<"H", "e", "l", "l", "o">>, <<"1", ".", "2", "k">>)

\* Bags that differ from Bag_cd in the score text only.
ScoreBags ==
    { Bag("GirlsWithGuns", None, Link_g_cd, Title_Yo, sc) :
        sc \in {<<>>, Score_abc, Score_dash, <<Bullet>>, Score_inf} }

\* Bags with a missing or unusable field.
BrokenBags ==
    { Bag("GirlsWithGuns", Id_t3_ab, None, Title_Hi, Score_301),
      Bag("GirlsWithGuns", Id_t3_ab, Link_g_ab, None, Score_301),
      Bag("GirlsWithGuns", Id_t3_ab, Link_g_ab, Title_blank, Score_301),
      Bag("GirlsWithGuns", <<>>, Link_nomarker, Title_Hi, Score_301),
      Bag("GirlsWithGuns", None, Link_noid, Title_Hi, Score_301) }

\* Bags whose id attribute and link disagree, or whose id attribute is the
\* bare prefix.
IdBags ==
    { Bag("GirlsWithGuns", Id_t3_ab, Link_g_cd, Title_Hi, Score_301),
      Bag("GirlsWithGuns", Prefix_t3, Link_g_cd, Title_Hi, Score_301) }

\* Ages, in seconds, of the posts a page shows: one hour, exactly the
\* horizon, one second beyond it.
Ages == {SecondsPerHour, POST_MAX_AGE_HOURS * SecondsPerHour, POST_MAX_AGE_HOURS * SecondsPerHour + 1}

\* The usual created-timestamp attribute of a post created at the instant t.
PlainStamp(t) == [created |-> IsoTs(t, Sfx_0000), timeago |-> NoTs]

\* Every pair of created-timestamp attribute and <time datetime> fallback
\* seen for a post created at the instant t.
Stamps(t) ==
    { PlainStamp(t),
      [created |-> IsoTs(t, Sfx_Z), timeago |-> NoTs],
      [created |-> IsoTs(t, <<>>), timeago |-> NoTs],
      [created |-> IsoTs(t + SecondsPerHour, Sfx_01_00), timeago |-> NoTs],
      [created |-> NoTs, timeago |-> IsoTs(t, Sfx_Z)],
      [created |-> IsoTs(t, Sfx_bad), timeago |-> IsoTs(t, Sfx_Z)],
      [created |-> TextTs, timeago |-> NoTs],
      [created |-> IsoTs(t + SecondsPerHour, Sfx_0100), timeago |-> NoTs],
      [created |-> EpochTs(t), timeago |-> NoTs],
      [created |-> NoTs, timeago |-> AgoTs(t)],
      [created |-> EmptyTs, timeago |-> EmptyTs] }

Raw(b, st) ==
    [subreddit |-> b.subreddit, id |-> b.id, permalink |-> b.permalink,
     title |-> b.title, score |-> b.score, created |-> st.created, timeago |-> st.timeago]

\* The raw posts the pages may hold at the instant at.
RawPosts(at) ==
    {Raw(b, PlainStamp(at - a)) : b \in {Bag_ab, Bag_ab_again}, a \in Ages}
      \cup {Raw(Bag_cd, st) : st \in UNION {Stamps(at - a) : a \in Ages}}
      \cup {Raw(b, PlainStamp(at - SecondsPerHour)) : b \in ScoreBags \cup BrokenBags \cup IdBags}
      \cup {Raw(Bag_abc123, [created |-> EpochTs(at - SecondsPerHour), timeago |-> NoTs])}

\* What a page lists in a scheduled pass: a post, and one without a title.
Listing(at) ==
    {Raw(b, PlainStamp(at - SecondsPerHour)) :
        b \in {Bag_cd, Bag("GirlsWithGuns", Id_t3_ab, Link_g_ab, None, Score_301)}}

\* The short listing the queue is fed from: posts one hour old.
Feed(at) ==
    {Raw(b, PlainStamp(at - SecondsPerHour)) : b \in {Bag_ab, Bag_ab_again, Bag_cd}}

(***************************************************************************)
(* Processes and bounds.                                                   *)
(***************************************************************************)
Scrapers == {"s1", "s2"}
Claimers == {"c1", "c2"}

\* MAX_COMMENTS_PER_RUN and POST_MAX_AGE_HOURS values the environment of a
\* commenter run may set.
Limits == {1, 2}
Horizons == {1, 2, POST_MAX_AGE_HOURS}

\* Clock steps a behaviour of the queue covers (two hours each), and a
\* behaviour of the discovery pass (one second each).
MaxSteps == 1
MaxDrift == 1

\* Scheduler cycles a behaviour covers.
MaxCycles == 1

(***************************************************************************)
(* Configuration and batch selection.                                      *)
(***************************************************************************)
BATCH_MIN == 13
BATCH_MAX == 31
LOOP_DELAY_MIN_SEC == 6 * 60
LOOP_DELAY_MAX_SEC == 18 * 60
SUBREDDIT_COOLDOWN_MIN_SEC == 13
SUBREDDIT_COOLDOWN_MAX_SEC == 31
BACKOFF_MIN_SEC == 120
BACKOFF_MAX_SEC == 240

\* random.randint(a, b), narrowed to the ends of the range.
Waits(a, b) == {a, b}

\* SUBREDDITS as shipped (its first names), and emptied.
SourceLists == {<<>>, <<"GirlsWithGuns", "CountryGirls">>}

\* DB_CONFIG of the scraper: as shipped, and with a value left empty.
Db(user, password, database, host) ==
    [user |-> user, password |-> password, database |-> database, host |-> host, port |-> 5432]
DbShipped == Db(<<"p">>, <<"s">>, <<"c">>, <<"h">>)
DbConfigs == {DbShipped, Db(<<"p">>, <<>>, <<"c">>, <<"h">>), Db(<<"p">>, <<"s">>, <<"c">>, None)}

\* _validated_db_config: the keys whose value is None or "".
\* (port is a number in every configuration, never None or "".)
MissingKeys(db) == {k \in DOMAIN db \ {"port"} : db[k] \in {None, <<>>}}
validated_db_config(db) ==
    IF MissingKeys(db) # {} THEN Raised("RuntimeError") ELSE Ok(db)

\* The environment of the commenter: DB_HOST, DB_NAME, DB_USER, DB_PASSWORD.
\* os.getenv(name, "") gives "" for a variable that is not set.
Env(host, name, user, password) ==
    [DB_HOST |-> host, DB_NAME |-> name, DB_USER |-> user, DB_PASSWORD |-> password]
EnvSet == Env(<<"h">>, <<"c">>, <<"p">>, <<"s">>)
Envs == {EnvSet, Env(<<>>, <<"c">>, <<"p">>, <<"s">>), Env(<<"h">>, <<"c">>, <<"p">>, <<>>)}

\* A get_db_config that takes what it finds.
get_db_config_lenient(env) ==
    Ok(env)

\* get_db_config: RuntimeError if a required variable is missing or empty.
get_db_config(env) ==
    IF \E k \in {"DB_HOST", "DB_NAME", "DB_USER", "DB_PASSWORD"} : env[k] = <<>>
    THEN Raised("RuntimeError")
    ELSE Ok(env)

\* SUBREDDITS as shipped, all six names.
SUBREDDITS_shipped ==
    <<"GirlsWithGuns", "CountryGirls", "CamoGirls", "TacticalGirls", "Outdoors", "Bushcraft">>

\* What is configured in a deployment.
Conf(subreddits, db, env) == [SUBREDDITS |-> subreddits, DB_CONFIG |-> db, env |-> env]
ConfShipped == Conf(<<"GirlsWithGuns", "CountryGirls">>, DbShipped, EnvSet)
Confs == {Conf(l, db, env) : l \in SourceLists, db \in DbConfigs, env \in Envs}

\* k picks with repetition allowed (random.choices).
random_choices(population, k) ==
    {[i \in 1..k |-> population[q[i]]] : q \in [1..k -> 1..Len(population)]}

\* The lists of k different positions out of the set free.
RECURSIVE Picks(_, _)
Picks(free, k) ==
    IF k = 0 THEN {<<>>}
    ELSE UNION {{<<i>> \o rest : rest \in Picks(free \ {i}, k - 1)} : i \in free}

\* random.sample(population, k): k picks without replacement, in any order.
random_sample(population, k) ==
    {[i \in 1..k |-> population[q[i]]] : q \in Picks(1..Len(population), k)}

\* A selection whose batch size may be any number from 1 up.
get_subreddits_for_this_loop_any_size(SUBREDDITS) ==
    IF SUBREDDITS = <<>> THEN {<<>>}
    ELSE UNION {random_sample(SUBREDDITS, Min(Len(SUBREDDITS), n)) : n \in 1..BATCH_MAX}

\* get_subreddits_for_this_loop: every list it may return.
get_subreddits_for_this_loop(SUBREDDITS) ==
    IF SUBREDDITS = <<>> THEN {<<>>}
    ELSE UNION {random_sample(SUBREDDITS, Min(Len(SUBREDDITS), n)) : n \in BATCH_MIN..BATCH_MAX}

\* random.shuffle(list): every order of the same elements.
random_shuffle(list) == random_sample(list, Len(list))

VARIABLES
    now,        \* the current instant (UTC seconds); NOW() and utcnow()
    rows,       \* table reddit_posts
    spc,        \* scraper: "extract" (reading a post), "insert" (awaiting the
                \* INSERT) or "count" (the INSERT returned)
    pending,    \* scraper: arguments of the INSERT of this iteration
    status,     \* scraper: command status conn.execute returned
    printed,    \* scraper: what its last printed line says of a post
    cpc,        \* commenter: "idle", "comment", "ack"
    posts,      \* commenter: the list fetch_next_posts_to_comment returned
    idx,        \* commenter: position in posts (enumerate(posts, 1))
    outcome,    \* commenter: success flag comment_on_post returned
    history,    \* per row, what the action stage and the acks did to it
    conf,       \* what is configured: SUBREDDITS, DB_CONFIG, the environment
    sched       \* scraper: where run_scraper is, and its locals

vars == <<now, rows, spc, pending, status, printed, cpc, posts, idx, outcome, history,
          conf, sched>>

scraperVars == <<spc, pending, status, printed>>
runVars == <<conf, sched>>
claimerVars == <<cpc, posts, idx, outcome>>

\* succeeded: comment_on_post returned success for the row at least once;
\* acked_ok: mark_commented was executed for it; last_ack: the last UPDATE.
NoHistory == [succeeded |-> FALSE, acked_ok |-> FALSE, last_ack |-> "none"]

\* run_scraper before connect_db.  pc: "connect", "select", "backoff",
\* "shuffle", "launch", "goto", "posts", "cooldown", "close", "delay",
\* "ended".  subreddits: the batch; at: position of the source being
\* scraped; done: sources whose pass has returned in this cycle; failed:
\* those of them whose pass raised; cycle:
\* cycles begun; cause: what ended the process.
AtStart ==
    [pc |-> "connect", subreddits |-> <<>>, at |-> 0, done |-> <<>>, failed |-> <<>>,
     cycle |-> 0, cause |-> "none"]

\* run_scraper inside the pass over the first source of a batch.
InPass ==
    [pc |-> "posts", subreddits |-> ConfShipped.SUBREDDITS, at |-> 1, done |-> <<>>,
     failed |-> <<>>, cycle |-> 1, cause |-> "none"]

\* The scrapers are in the middle of a discovery pass, the commenters are
\* not running, the table is empty.
Init ==
    /\ now = 0
    /\ rows = <<>>
    /\ spc = [s \in Scrapers |-> "extract"]
    /\ pending = [s \in Scrapers |-> NoArgs]
    /\ status = [s \in Scrapers |-> "none"]
    /\ printed = [s \in Scrapers |-> "none"]
    /\ cpc = [c \in Claimers |-> "idle"]
    /\ posts = [c \in Claimers |-> <<>>]
    /\ idx = [c \in Claimers |-> 0]
    /\ outcome = [c \in Claimers |-> FALSE]
    /\ history = <<>>
    /\ conf = ConfShipped
    /\ sched = [s \in Scrapers |-> InPass]

\* Every process is about to start, under any configuration.
InitStartup ==
    /\ now = 0
    /\ rows = <<>>
    /\ spc = [s \in Scrapers |-> "extract"]
    /\ pending = [s \in Scrapers |-> NoArgs]
    /\ status = [s \in Scrapers |-> "none"]
    /\ printed = [s \in Scrapers |-> "none"]
    /\ cpc = [c \in Claimers |-> "idle"]
    /\ posts = [c \in Claimers |-> <<>>]
    /\ idx = [c \in Claimers |-> 0]
    /\ outcome = [c \in Claimers |-> FALSE]
    /\ history = <<>>
    /\ conf \in Confs
    /\ sched = [s \in Scrapers |-> AtStart]

\* Time passes: a step of d seconds, one of at most n.
Tick(d, n) ==
    /\ now + d <= n * d
    /\ now' = now + d
    /\ UNCHANGED <<rows, scraperVars, claimerVars, history, runVars>>

(***************************************************************************)
(* Scraper: the body of `for post in posts` in scrape_subreddit.           *)
(***************************************************************************)

\* The history grows with the table.
Grown(table) == [i \in DOMAIN table |-> IF i \in DOMAIN history THEN history[i] ELSE NoHistory]

\* Lines 165-223: read the attributes, derive url, id, timestamp, age and
\* score, and print the verdict.  After a `continue` or a caught exception
\* the loop is at the next post.
ExtractPost(s, raw) ==
    /\ sched[s].pc = "posts"
    /\ spc[s] = "extract"
    /\ LET r == ProcessPost(raw.subreddit, raw, now)
       IN  /\ printed' = [printed EXCEPT ![s] = r.verdict]
           /\ IF r.verdict = "valid"
              THEN /\ spc' = [spc EXCEPT ![s] = "insert"]
                   /\ pending' = [pending EXCEPT ![s] = r.args]
              ELSE UNCHANGED <<spc, pending>>
    /\ UNCHANGED <<now, rows, status, claimerVars, history, runVars>>

\* Lines 224-231: the awaited INSERT completes; the server reports one row
\* inserted ("INSERT 0 1") or none ("INSERT 0 0").
InsertPost(s) ==
    /\ sched[s].pc = "posts"
    /\ spc[s] = "insert"
    /\ rows' = insert_reddit_post(rows, pending[s], now)
    /\ history' = Grown(rows')
    /\ status' = [status EXCEPT ![s] = IF Len(rows') > Len(rows) THEN "INSERT 0 1" ELSE "INSERT 0 0"]
    /\ spc' = [spc EXCEPT ![s] = "count"]
    /\ UNCHANGED <<now, pending, printed, claimerVars, runVars>>

\* An INSERT whose exception is not caught around the post: the pass over
\* the source ends there.
InsertFails_ends_pass(s) ==
    /\ sched[s].pc = "posts"
    /\ spc[s] = "insert"
    /\ spc' = [spc EXCEPT ![s] = "extract"]
    /\ pending' = [pending EXCEPT ![s] = NoArgs]
    /\ printed' = [printed EXCEPT ![s] = "error"]
    /\ sched' = [sched EXCEPT ![s].pc = "cooldown"]
    /\ UNCHANGED <<now, rows, status, claimerVars, history, conf>>

\* Lines 234-236: the INSERT raises (connection lost); the record is skipped.
InsertFails(s) ==
    /\ sched[s].pc = "posts"
    /\ spc[s] = "insert"
    /\ spc' = [spc EXCEPT ![s] = "extract"]
    /\ pending' = [pending EXCEPT ![s] = NoArgs]
    /\ printed' = [printed EXCEPT ![s] = "error"]
    /\ UNCHANGED <<now, rows, status, claimerVars, history, runVars>>

\* Line 232: the post is counted as valid; on to the next post.
FinishPost(s) ==
    /\ sched[s].pc = "posts"
    /\ spc[s] = "count"
    /\ spc' = [spc EXCEPT ![s] = "extract"]
    /\ pending' = [pending EXCEPT ![s] = NoArgs]
    /\ status' = [status EXCEPT ![s] = "none"]
    /\ UNCHANGED <<now, rows, printed, claimerVars, history, runVars>>

\* Lines 165-232 as one step: the iteration from the attribute reads to the
\* completed INSERT, which is its only access to the table.
ScrapePost(s, raw) ==
    /\ sched[s].pc = "posts"
    /\ spc[s] = "extract"
    /\ LET r == ProcessPost(raw.subreddit, raw, now)
       IN  /\ printed' = [printed EXCEPT ![s] = r.verdict]
           /\ IF r.verdict = "valid"
              THEN /\ rows' = insert_reddit_post(rows, r.args, now)
                   /\ history' = Grown(rows')
              ELSE UNCHANGED <<rows, history>>
    /\ UNCHANGED <<now, spc, pending, status, claimerVars, runVars>>

(***************************************************************************)
(* Commenter: run_commenter_batch.  A finished run leaves the process as   *)
(* it was before the run; the next invocation starts from there.           *)
(***************************************************************************)
EndRun(c) ==
    /\ cpc' = [cpc EXCEPT ![c] = "idle"]
    /\ posts' = [posts EXCEPT ![c] = <<>>]
    /\ idx' = [idx EXCEPT ![c] = 0]
    /\ outcome' = [outcome EXCEPT ![c] = FALSE]

\* Lines 427-453: configuration error, missing storage state or no
\* database connection: the run returns at once.
StartFails(c) ==
    /\ cpc[c] = "idle"
    /\ EndRun(c)
    /\ UNCHANGED <<now, rows, scraperVars, history, runVars>>

\* A fetch that marks the rows it returns as taken.
FetchPosts_marking(c, limit, hours) ==
    /\ cpc[c] = "idle"
    /\ \E found \in fetch_next_posts_to_comment(rows, now, limit, hours) :
          /\ IF found = <<>>
             THEN EndRun(c)
             ELSE /\ posts' = [posts EXCEPT ![c] = found]
                  /\ idx' = [idx EXCEPT ![c] = 1]
                  /\ cpc' = [cpc EXCEPT ![c] = "comment"]
                  /\ UNCHANGED outcome
          /\ rows' = [i \in DOMAIN rows |->
                         IF \E k \in DOMAIN found : found[k].id = rows[i].id
                         THEN [rows[i] EXCEPT !.commented = TRUE]
                         ELSE rows[i]]
    /\ UNCHANGED <<now, scraperVars, history, runVars>>

\* A fetch that skips the rows another run holds (FOR UPDATE SKIP LOCKED).
FetchPosts_skip_held(c, limit, hours) ==
    /\ cpc[c] = "idle"
    /\ LET held(r) == \E d \in Claimers : \E k \in DOMAIN posts[d] : posts[d][k].id = r.id
           free    == SelectSeq(rows, LAMBDA r : ~held(r))
       IN  \E found \in fetch_next_posts_to_comment(free, now, limit, hours) :
              IF found = <<>>
              THEN EndRun(c)
              ELSE /\ posts' = [posts EXCEPT ![c] = found]
                   /\ idx' = [idx EXCEPT ![c] = 1]
                   /\ cpc' = [cpc EXCEPT ![c] = "comment"]
                   /\ UNCHANGED outcome
    /\ UNCHANGED <<now, rows, scraperVars, history, runVars>>

\* Lines 427-472: the configuration is read (limit, hours), the pool is
\* created and the SELECT returns; an empty list ends the run.
FetchPosts(c, limit, hours) ==
    /\ cpc[c] = "idle"
    /\ get_db_config(conf.env).exc = "none"
    /\ \E found \in fetch_next_posts_to_comment(rows, now, limit, hours) :
          IF found = <<>>
          THEN EndRun(c)
          ELSE /\ posts' = [posts EXCEPT ![c] = found]
               /\ idx' = [idx EXCEPT ![c] = 1]
               /\ cpc' = [cpc EXCEPT ![c] = "comment"]
               /\ UNCHANGED outcome
    /\ UNCHANGED <<now, rows, scraperVars, history, runVars>>

\* Lines 464-467: the SELECT raises; the run returns.
FetchFails(c) ==
    /\ cpc[c] = "idle"
    /\ get_db_config(conf.env).exc = "none"
    /\ EndRun(c)
    /\ UNCHANGED <<now, rows, scraperVars, history, runVars>>

\* Lines 476-483: the browser, its context or its page cannot be started;
\* the exception leaves run_commenter_batch before the first post.
LaunchFails(c) ==
    /\ cpc[c] = "comment"
    /\ idx[c] = 1
    /\ EndRun(c)
    /\ UNCHANGED <<now, rows, scraperVars, history, runVars>>

\* The positions of the table that hold the row with the given id.
Positions(table, row_id) == {i \in DOMAIN table : table[i].id = row_id}

\* Lines 496-517: comment_on_post returns (success, error_msg) for posts[idx].
CommentOnPost(c, success) ==
    /\ cpc[c] = "comment"
    /\ outcome' = [outcome EXCEPT ![c] = success]
    /\ cpc' = [cpc EXCEPT ![c] = "ack"]
    /\ history' = [i \in DOMAIN history |->
                      IF success /\ i \in Positions(rows, posts[c][idx[c]].id)
                      THEN [history[i] EXCEPT !.succeeded = TRUE]
                      ELSE history[i]]
    /\ UNCHANGED <<now, rows, scraperVars, posts, idx, runVars>>

\* Lines 532-547: the next post after the pause, or the end of the run.
NextPost(c) ==
    IF idx[c] < Len(posts[c])
    THEN /\ idx' = [idx EXCEPT ![c] = idx[c] + 1]
         /\ cpc' = [cpc EXCEPT ![c] = "comment"]
         /\ outcome' = [outcome EXCEPT ![c] = FALSE]
         /\ UNCHANGED posts
    ELSE EndRun(c)

\* Lines 519-530: mark_commented on success, mark_failed otherwise.
AckPost(c) ==
    /\ cpc[c] = "ack"
    /\ LET row_id == posts[c][idx[c]].id
       IN  /\ rows' = IF outcome[c] THEN mark_commented(rows, row_id)
                                    ELSE mark_failed(rows, row_id)
           /\ history' = [i \in DOMAIN history |->
                             IF i \in Positions(rows, row_id)
                             THEN IF outcome[c]
                                  THEN [history[i] EXCEPT !.acked_ok = TRUE, !.last_ack = "success"]
                                  ELSE [history[i] EXCEPT !.last_ack = "failure"]
                             ELSE history[i]]
    /\ NextPost(c)
    /\ UNCHANGED <<now, scraperVars, runVars>>

\* An UPDATE whose exception is not caught around the post: the run ends.
AckFails_ends_run(c) ==
    /\ cpc[c] = "ack"
    /\ EndRun(c)
    /\ UNCHANGED <<now, rows, scraperVars, history, runVars>>

\* Lines 523-524, 529-530: the UPDATE raises; the error is printed.
AckFails(c) ==
    /\ cpc[c] = "ack"
    /\ NextPost(c)
    /\ UNCHANGED <<now, rows, scraperVars, history, runVars>>

\* The rows that hold the description of a source.  The only statement of
\* the scraper that writes to the database is the INSERT INTO reddit_posts
\* of insert_reddit_post; scrape_subreddit fetches the /hot/ listing of the
\* source and nothing else, so there are no such rows in any state.
source_descriptions == {}

(***************************************************************************)
(* Scheduler: run_scraper.  A sleep is one step that moves the clock.      *)
(***************************************************************************)
otherVars == <<rows, scraperVars, claimerVars, history, conf>>

\* The process ends with an exception that nothing catches.
Ended(s, cause) ==
    sched' = [sched EXCEPT ![s].pc = "ended", ![s].cause = cause]

\* Line 257: connect_db returns a connection.
ConnectDb(s) ==
    /\ sched[s].pc = "connect"
    /\ validated_db_config(conf.DB_CONFIG).exc = "none"
    /\ sched' = [sched EXCEPT ![s].pc = "select"]
    /\ UNCHANGED <<now, otherVars>>

\* Lines 43-47, 257: _validated_db_config raises RuntimeError.
ConfigError(s) ==
    /\ sched[s].pc = "connect"
    /\ validated_db_config(conf.DB_CONFIG).exc # "none"
    /\ Ended(s, "config")
    /\ UNCHANGED <<now, otherVars>>

\* Lines 50-51, 257: asyncpg.connect raises (server unreachable, refused).
ConnectFails(s) ==
    /\ sched[s].pc = "connect"
    /\ validated_db_config(conf.DB_CONFIG).exc = "none"
    /\ Ended(s, "connect")
    /\ UNCHANGED <<now, otherVars>>

\* Lines 260-268: a cycle begins with the choice of the batch; an empty
\* batch leads to the backoff sleep.
SelectBatch(s) ==
    /\ sched[s].pc = "select"
    /\ sched[s].cycle < MaxCycles
    /\ \E selected \in get_subreddits_for_this_loop(conf.SUBREDDITS) :
          sched' = [sched EXCEPT ![s].pc = IF selected = <<>> THEN "backoff" ELSE "shuffle",
                                 ![s].subreddits = selected,
                                 ![s].at = 0,
                                 ![s].done = <<>>,
                                 ![s].failed = <<>>,
                                 ![s].cycle = sched[s].cycle + 1]
    /\ UNCHANGED <<now, otherVars>>

\* A backoff without the `continue`: the cycle goes on with the empty batch.
Backoff_falls_through(s) ==
    /\ sched[s].pc = "backoff"
    /\ \E backoff \in Waits(BACKOFF_MIN_SEC, BACKOFF_MAX_SEC) : now' = now + backoff
    /\ sched' = [sched EXCEPT ![s].pc = "shuffle"]
    /\ UNCHANGED otherVars

\* Lines 265-268: sleep the backoff, then `continue`.
Backoff(s) ==
    /\ sched[s].pc = "backoff"
    /\ \E backoff \in Waits(BACKOFF_MIN_SEC, BACKOFF_MAX_SEC) : now' = now + backoff
    /\ sched' = [sched EXCEPT ![s].pc = "select"]
    /\ UNCHANGED otherVars

\* Line 270: random.shuffle(subreddits).
Shuffle(s) ==
    /\ sched[s].pc = "shuffle"
    /\ \E shuffled \in random_shuffle(sched[s].subreddits) :
          sched' = [sched EXCEPT ![s].pc = "launch", ![s].subreddits = shuffled]
    /\ UNCHANGED <<now, otherVars>>

\* Lines 273-279: the browser, its context and the page are there; the
\* loop over the batch begins.
LaunchBrowser(s) ==
    /\ sched[s].pc = "launch"
    /\ sched' = [sched EXCEPT ![s].pc = "goto", ![s].at = 1]
    /\ UNCHANGED <<now, otherVars>>

\* Lines 273-279, 291-292: launch, new_context, new_page or a close raises;
\* no handler is around them.
BrowserFails(s) ==
    /\ sched[s].pc \in {"launch", "close"}
    /\ Ended(s, "browser")
    /\ UNCHANGED <<now, otherVars>>

\* Lines 149-160: the page of the source is loaded and its posts are listed.
PageLoads(s) ==
    /\ sched[s].pc = "goto"
    /\ sched' = [sched EXCEPT ![s].pc = "posts"]
    /\ UNCHANGED <<now, otherVars>>

\* The pass of a cycle's source at position `at` has returned, normally or
\* with an exception that was caught.
PassReturned(s, caught) ==
    sched' = [sched EXCEPT ![s].pc = "cooldown",
                           ![s].done = Append(@, sched[s].subreddits[sched[s].at]),
                           ![s].failed = IF caught THEN Append(@, sched[s].subreddits[sched[s].at])
                                         ELSE @]

\* A failed pass that gives up the rest of the batch.
PassFails_abandons(s) ==
    /\ sched[s].pc = "goto"
    /\ sched' = [sched EXCEPT ![s].pc = "close"]
    /\ UNCHANGED <<now, otherVars>>

\* Lines 149-160, 243-245, 284-285: goto, wait_for_selector or the listing
\* raises (timeout, forbidden); scrape_subreddit catches it, or run_scraper
\* does if the screenshot raises too.
PassFails(s) ==
    /\ sched[s].pc = "goto"
    /\ PassReturned(s, TRUE)
    /\ UNCHANGED <<now, otherVars>>

\* Lines 162, 238-241: the loop over the posts is through (with or without
\* valid posts) and scrape_subreddit returns.
PassEnds(s) ==
    /\ sched[s].pc = "posts"
    /\ spc[s] = "extract"
    /\ PassReturned(s, FALSE)
    /\ UNCHANGED <<now, otherVars>>

\* Lines 287-289: sleep the cooldown, then the next source or the end of
\* the batch.
Cooldown(s) ==
    /\ sched[s].pc = "cooldown"
    /\ \E wait_s \in Waits(SUBREDDIT_COOLDOWN_MIN_SEC, SUBREDDIT_COOLDOWN_MAX_SEC) :
          now' = now + wait_s
    /\ sched' = IF sched[s].at < Len(sched[s].subreddits)
                THEN [sched EXCEPT ![s].pc = "goto", ![s].at = sched[s].at + 1]
                ELSE [sched EXCEPT ![s].pc = "close"]
    /\ UNCHANGED otherVars

\* Lines 291-292: context and browser are closed.
CloseBrowser(s) ==
    /\ sched[s].pc = "close"
    /\ sched' = [sched EXCEPT ![s].pc = "delay"]
    /\ UNCHANGED <<now, otherVars>>

\* Lines 294-297: sleep the inter-cycle delay, then the next cycle.
LoopDelay(s) ==
    /\ sched[s].pc = "delay"
    /\ \E loop_wait \in Waits(LOOP_DELAY_MIN_SEC, LOOP_DELAY_MAX_SEC) : now' = now + loop_wait
    /\ sched' = [sched EXCEPT ![s].pc = "select"]
    /\ UNCHANGED otherVars

\* The task is cancelled from outside (KeyboardInterrupt, CancelledError).
Cancel(s) ==
    /\ sched[s].pc \notin {"ended"}
    /\ Ended(s, "cancelled")
    /\ UNCHANGED <<now, otherVars>>

(***************************************************************************)
(* Spec: the queue.  A scraper feeds a short listing (two posts, one of    *)
(* them seen on two pages with different attributes) while two commenter   *)
(* processes run batches against the table.                                *)
(***************************************************************************)
Next ==
    \/ Tick(2 * SecondsPerHour, MaxSteps)
    \/ \E raw \in Feed(now) : ScrapePost("s1", raw)
    \/ \E c \in Claimers : StartFails(c)
    \/ \E c \in Claimers : \E limit \in Limits, hours \in Horizons : FetchPosts(c, limit, hours)
    \/ \E c \in Claimers : FetchFails(c)
    \/ \E c \in Claimers : \E success \in BOOLEAN : CommentOnPost(c, success)
    \/ \E c \in Claimers : AckPost(c)
    \/ \E c \in Claimers : AckFails(c)

Spec == Init /\ [][Next]_vars

(***************************************************************************)
(* SpecDiscovery: concurrent discovery.  Two scraper processes work        *)
(* through the short listing and write to the same table, each INSERT a    *)
(* step of its own; no commenter runs.                                     *)
(***************************************************************************)
NextDiscovery ==
    \/ Tick(1, MaxDrift)
    \/ \E s \in Scrapers : \E raw \in Feed(now) : ExtractPost(s, raw)
    \/ \E s \in Scrapers : InsertPost(s)
    \/ \E s \in Scrapers : InsertFails(s)
    \/ \E s \in Scrapers : FinishPost(s)

SpecDiscovery == Init /\ [][NextDiscovery]_vars

(***************************************************************************)
(* SpecScrape: one scraper works through everything the pages can show:    *)
(* posts at and beyond the horizon, every timestamp form, every score      *)
(* text, missing fields.                                                   *)
(***************************************************************************)
NextScrape ==
    \/ Tick(1, MaxDrift)
    \/ \E raw \in RawPosts(now) : ExtractPost("s1", raw)
    \/ InsertPost("s1")
    \/ InsertFails("s1")
    \/ FinishPost("s1")

SpecScrape == Init /\ [][NextScrape]_vars

(***************************************************************************)
(* SpecPipeline: one scraper, each INSERT a step of its own, keeps         *)
(* finding the posts of the short listing while one commenter process      *)
(* runs batch after batch on the table.                                    *)
(***************************************************************************)
NextPipeline ==
    \/ Tick(2 * SecondsPerHour, MaxSteps)
    \/ \E raw \in Feed(now) : ExtractPost("s1", raw)
    \/ InsertPost("s1")
    \/ InsertFails("s1")
    \/ FinishPost("s1")
    \/ \E limit \in Limits, hours \in Horizons : FetchPosts("c1", limit, hours)
    \/ \E success \in BOOLEAN : CommentOnPost("c1", success)
    \/ AckPost("c1")
    \/ AckFails("c1")

SpecPipeline == Init /\ [][NextPipeline]_vars

(***************************************************************************)
(* SpecClaim: the queue with every commenter run configured alike (one     *)
(* post per run, the scraper's horizon), so that the lists two runs fetch  *)
(* can be compared.                                                        *)
(***************************************************************************)
NextClaim ==
    \/ Tick(2 * SecondsPerHour, MaxSteps)
    \/ \E raw \in Feed(now) : ScrapePost("s1", raw)
    \/ \E c \in Claimers : FetchPosts(c, 1, POST_MAX_AGE_HOURS)
    \/ \E c \in Claimers : \E success \in BOOLEAN : CommentOnPost(c, success)
    \/ \E c \in Claimers : AckPost(c)
    \/ \E c \in Claimers : AckFails(c)

SpecClaim == Init /\ [][NextClaim]_vars

(***************************************************************************)
(* Properties.                                                             *)
(***************************************************************************)

\* Commenter c completes a SELECT that returns at least one post.
Claims(c) == cpc[c] = "idle" /\ cpc'[c] = "comment"

\* The ids of the posts in a fetched list.
IdsOf(list) == {list[k].id : k \in DOMAIN list}

\* C1: once mark_commented has been executed for a row, no later
\* fetch_next_posts_to_comment returns that row.
C1_AckedNeverClaimedAgain ==
    [][\A c \in Claimers :
          Claims(c) => \A i \in IdsOf(posts'[c]) : ~history[i].acked_ok]_vars

\* Row i is certain to be in the result of the query (limit, hours): it
\* satisfies the WHERE clause and fewer than limit other such rows were
\* seen as late as it or later.
Admitted(i, limit, hours) ==
    /\ Eligible(rows[i], now, hours)
    /\ Cardinality({j \in DOMAIN rows \ {i} :
                       /\ Eligible(rows[j], now, hours)
                       /\ rows[j].seen_at >= rows[i].seen_at}) < limit

\* Row i is in every list the query (limit, hours) may return.  (A query
\* that returns nothing ends the run and leaves the state as it was, so the
\* lists the query may return are looked at as well as the steps.)
InEveryResult(i, limit, hours) ==
    \A found \in fetch_next_posts_to_comment(rows, now, limit, hours) : i \in IdsOf(found)

\* C4: mark_failed leaves the row with commented = FALSE, and a row whose
\* last ack was a failure is in the result of every later query whose limit
\* and horizon admit it: no counter, backoff or poison state keeps it out.
C4_FailedIsClaimedAgain ==
    [][\A c \in Claimers :
          /\ (AckPost(c) /\ ~outcome[c])
                => \A i \in Positions(rows, posts[c][idx[c]].id) : rows'[i].commented = FALSE
          /\ \A limit \in Limits, hours \in Horizons :
                \A i \in DOMAIN rows :
                   (history[i].last_ack = "failure" /\ Admitted(i, limit, hours))
                      => /\ InEveryResult(i, limit, hours)
                         /\ FetchPosts(c, limit, hours) => i \in IdsOf(posts'[c])]_vars

\* C4 witness: the only commenter is handed a post whose last ack, in an
\* earlier run, was a failure.
C4_Witness ==
    /\ cpc["c1"] = "comment"
    /\ history[posts["c1"][idx["c1"]].id].last_ack = "failure"

\* C5: a row has commented = TRUE only if comment_on_post returned success
\* for it before.
C5_CommentedOnlyAfterSuccess ==
    \A i \in DOMAIN rows : rows[i].commented => history[i].succeeded

\* C5 witness: a commented row.
C5_Witness ==
    \E i \in DOMAIN rows : rows[i].commented /\ history[i].succeeded

C8_NoMutualExclusion ==
    [][\A c \in Claimers : \A d \in Claimers \ {c} : \A i \in IdsOf(posts[d]) :
          cpc[c] = "idle" =>
             \A limit \in Limits, hours \in Horizons :
                Admitted(i, limit, hours)
                   => /\ InEveryResult(i, limit, hours)
                      /\ FetchPosts(c, limit, hours) => i \in IdsOf(posts'[c])]_vars

\* C8 witness: comment_on_post has returned success to both commenters for
\* the same row.
C8_Witness ==
    /\ cpc["c1"] = "ack" /\ outcome["c1"]
    /\ cpc["c2"] = "ack" /\ outcome["c2"]
    /\ posts["c1"][idx["c1"]].id = posts["c2"][idx["c2"]].id

\* Scraper s completes an INSERT.
Inserts(s) == spc[s] = "insert" /\ spc'[s] = "count"

\* C2: an INSERT for a post_id that has a row leaves the table as it was:
\* subreddit, post_url, score, created_at, seen_at and commented of every
\* existing row are what they were, so a commented row stays commented.
C2_RediscoveryChangesNothing ==
    [][\A s \in Scrapers :
          Inserts(s) =>
             /\ \A i \in DOMAIN rows : i \in DOMAIN rows' /\ rows'[i] = rows[i]
             /\ (\E i \in DOMAIN rows : rows[i].post_id = pending[s].post_id)
                   => rows' = rows]_vars

\* C2 witness: the scraper has completed an INSERT for a post that has a
\* commented row, seen earlier on another page with another url and score.
C2_Witness ==
    /\ spc["s1"] = "count" /\ status["s1"] = "INSERT 0 0"
    /\ \E i \in DOMAIN rows :
          /\ rows[i].post_id = pending["s1"].post_id
          /\ rows[i].commented
          /\ rows[i].seen_at < now
          /\ rows[i].post_url # pending["s1"].post_url
          /\ rows[i].score # pending["s1"].score
          /\ rows[i].subreddit # pending["s1"].subreddit
          /\ rows[i].created_at # pending["s1"].created_at

\* C3: no two rows have the same post_id, whatever the interleaving of the
\* scrapers' INSERTs, and a completed INSERT leaves exactly one row for its
\* post_id and reports a command status, one row written or none.
C3_OneRowPerPostId ==
    /\ \A i, j \in DOMAIN rows : rows[i].post_id = rows[j].post_id => i = j
    /\ \A s \in Scrapers :
          spc[s] = "count" =>
             /\ Cardinality({i \in DOMAIN rows : rows[i].post_id = pending[s].post_id}) = 1
             /\ status[s] \in {"INSERT 0 1", "INSERT 0 0"}

\* C3 witness: two scrapers have completed INSERTs for the same post, found
\* under different urls; one wrote the row, the other wrote nothing.
C3_Witness ==
    /\ spc["s1"] = "count" /\ spc["s2"] = "count"
    /\ pending["s1"].post_id = pending["s2"].post_id
    /\ pending["s1"].post_url # pending["s2"].post_url
    /\ {status["s1"], status["s2"]} = {"INSERT 0 1", "INSERT 0 0"}

\* C7 as stated: a SELECT issued while another run holds its list and before
\* any UPDATE returns the rows of that list (no two rows having the same
\* seen_at, so that the order of the rows is the query's own).
C7_SecondClaimSameRows ==
    [][\A c \in Claimers : \A d \in Claimers \ {c} :
          ( /\ Claims(c)
            /\ cpc[d] \in {"comment", "ack"}
            /\ \A i \in DOMAIN history : history[i].last_ack = "none"
            /\ \A i, j \in DOMAIN rows : rows[i].seen_at = rows[j].seen_at => i = j )
             => posts'[c] = posts[d]]_vars

\* C7: the SELECT changes no row and leaves no marker: the table after it
\* is the table before it, the list it returned is one the same query may
\* return again at once, and every list that query may return has the same
\* length and the same seen_at values, position by position.
C7_ClaimBatchIsPureRead ==
    [][\A c \in Claimers :
          Claims(c) =>
             /\ rows' = rows
             /\ LET again == fetch_next_posts_to_comment(rows', now', 1, POST_MAX_AGE_HOURS)
                IN  /\ posts'[c] \in again
                    /\ \A q \in again :
                          /\ Len(q) = Len(posts'[c])
                          /\ \A k \in DOMAIN q : q[k].seen_at = posts'[c][k].seen_at]_vars

\* C7 witness: two runs hold the same list and no UPDATE has been executed.
C7_Witness ==
    /\ cpc["c1"] = "comment" /\ cpc["c2"] = "comment"
    /\ posts["c1"] = posts["c2"]
    /\ \A i \in DOMAIN history : history[i].last_ack = "none"

\* C9: a post with a usable timestamp goes on to the INSERT iff its age is
\* at most POST_MAX_AGE_HOURS hours: at the horizon exactly it is kept with
\* its created_at, one second beyond it is skipped.
C9_AgeFilterInclusive ==
    [][\A s \in Scrapers : \A a \in Ages : \A b \in {Bag_ab, Bag_ab_again, Bag_cd} :
          ExtractPost(s, Raw(b, PlainStamp(now - a))) =>
             IF a <= POST_MAX_AGE_HOURS * SecondsPerHour
             THEN /\ spc'[s] = "insert" /\ printed'[s] = "valid"
                  /\ pending'[s].created_at = now - a
             ELSE /\ spc'[s] = "extract" /\ printed'[s] = "too_old"
                  /\ rows' = rows]_vars

\* C9 witness: a row of a post that was exactly at the horizon when seen.
C9_Witness ==
    \E i \in DOMAIN rows :
       rows[i].seen_at - rows[i].created_at = POST_MAX_AGE_HOURS * SecondsPerHour

\* C10: every row has score >= 0.
C10_ScoreNeverNegative ==
    \A i \in DOMAIN rows : rows[i].score >= 0

\* C11: the score of a post never makes the scraper drop it: a post one
\* hour old, with id, title and link, is handed to the INSERT whatever its
\* score text is, non-finite decimal text included.
C11_ScoreNeverDropsPost ==
    [][\A b \in ScoreBags \cup {Bag_cd} :
          ExtractPost("s1", Raw(b, PlainStamp(now - SecondsPerHour)))
              => /\ printed'["s1"] = "valid"
                 /\ spc'["s1"] = "insert"]_vars

(***************************************************************************)
(* SpecScheduler: one scraper process from its start, under every          *)
(* configuration: connect, cycles of batch selection, passes with their    *)
(* posts, cooldowns and delays, and the ways the process can end.          *)
(***************************************************************************)
NextScheduler ==
    \/ ConnectDb("s1")
    \/ ConfigError("s1")
    \/ ConnectFails("s1")
    \/ SelectBatch("s1")
    \/ Backoff("s1")
    \/ Shuffle("s1")
    \/ LaunchBrowser("s1")
    \/ BrowserFails("s1")
    \/ PageLoads("s1")
    \/ PassFails("s1")
    \/ \E raw \in Listing(now) : ExtractPost("s1", raw)
    \/ InsertPost("s1")
    \/ InsertFails("s1")
    \/ FinishPost("s1")
    \/ PassEnds("s1")
    \/ Cooldown("s1")
    \/ CloseBrowser("s1")
    \/ LoopDelay("s1")
    \/ Cancel("s1")

SpecScheduler == InitStartup /\ [][NextScheduler]_vars

\* The elements of a list.
Elems(list) == {list[i] : i \in DOMAIN list}

NoRepeat(list) == \A i, j \in DOMAIN list : i # j => list[i] # list[j]

\* C12: the batch chosen for a cycle has min(number of sources, n) entries
\* for some n in BATCH_MIN..BATCH_MAX, which is between 1 and the number of
\* sources; every entry is a configured source and none comes twice.  The
\* shuffle that follows changes the order only.
C12_BatchIsSampleOfSources ==
    [][/\ (SelectBatch("s1") /\ conf.SUBREDDITS # <<>>) =>
            LET batch == sched'["s1"].subreddits
            IN  /\ \E n \in BATCH_MIN..BATCH_MAX : Len(batch) = Min(Len(conf.SUBREDDITS), n)
                /\ 1 <= Len(batch) /\ Len(batch) <= Len(conf.SUBREDDITS)
                /\ Elems(batch) \subseteq Elems(conf.SUBREDDITS)
                /\ NoRepeat(batch)
       /\ Shuffle("s1") =>
            /\ Len(sched'["s1"].subreddits) = Len(sched["s1"].subreddits)
            /\ Elems(sched'["s1"].subreddits) = Elems(sched["s1"].subreddits)
            /\ NoRepeat(sched'["s1"].subreddits)]_vars

\* A batch of both sources, shuffled into the other order than configured.
C12_Witness ==
    /\ sched["s1"].pc = "launch"
    /\ Len(sched["s1"].subreddits) = 2
    /\ sched["s1"].subreddits # conf.SUBREDDITS

\* The passes that have returned are the first ones of the shuffled batch,
\* one for each source, in its order.
PassesInOrder(sc) ==
    /\ sc.pc \in {"goto", "posts"} => sc.done = SubSeq(sc.subreddits, 1, sc.at - 1)
    /\ sc.pc = "cooldown" => sc.done = SubSeq(sc.subreddits, 1, sc.at)
    /\ sc.pc \in {"close", "delay"} => sc.done = sc.subreddits

\* C13: every source of the batch gets exactly one pass, in the shuffled
\* order; a pass that fails is caught and the remaining sources are still
\* processed; every pass, the last one included, is followed by a cooldown
\* of SUBREDDIT_COOLDOWN_MIN_SEC..SUBREDDIT_COOLDOWN_MAX_SEC seconds, and
\* neither the next pass nor the end of the batch comes before it is over.
C13_OnePassPerSourceThenCooldown ==
    [][/\ PassesInOrder(sched'["s1"])
       /\ (PassFails("s1") \/ PassEnds("s1")) => sched'["s1"].pc = "cooldown"
       /\ (sched["s1"].pc = "cooldown" /\ sched'["s1"].pc \in {"goto", "posts", "close", "delay"}) =>
            /\ now' - now \in SUBREDDIT_COOLDOWN_MIN_SEC..SUBREDDIT_COOLDOWN_MAX_SEC
            /\ sched'["s1"].pc = IF sched["s1"].at < Len(sched["s1"].subreddits)
                                 THEN "goto" ELSE "close"
       /\ sched'["s1"].pc \in {"goto", "posts", "close"} =>
            sched["s1"].pc \in {"launch", "goto", "posts", "cooldown", "close"}
       /\ (sched["s1"].pc # "goto" /\ sched'["s1"].pc = "goto") =>
            sched["s1"].pc \in {"launch", "cooldown"}
       /\ (sched["s1"].pc # "close" /\ sched'["s1"].pc = "close") =>
            sched["s1"].pc = "cooldown"]_vars

\* The pass of the first source failed, the second source had its pass and
\* stored a post, both cooldowns are over.
C13_Witness ==
    /\ sched["s1"].pc = "close"
    /\ Len(sched["s1"].done) = 2
    /\ sched["s1"].failed = <<sched["s1"].subreddits[1]>>
    /\ Len(rows) = 1
    /\ now >= 2 * SUBREDDIT_COOLDOWN_MIN_SEC

\* C14: the scheduler never stops on its own: the process of the scraper
\* ends only by a configuration error at startup (a store that cannot be
\* reached at startup is counted with it) or by cancellation from outside.
C14_EndsOnlyByConfigOrCancel ==
    sched["s1"].pc = "ended" =>
        \/ sched["s1"].cause \in {"config", "cancelled"}
        \/ sched["s1"].cause = "connect" /\ sched["s1"].cycle = 0

(***************************************************************************)
(* SpecSchedulerFair: the scheduler with the event loop running the task:  *)
(* a sleep that is over returns, and a step of run_scraper that waits for  *)
(* nothing outside the process is taken.                                   *)
(***************************************************************************)
FairScheduler ==
    /\ WF_vars(SelectBatch("s1"))
    /\ WF_vars(Backoff("s1"))
    /\ WF_vars(Shuffle("s1"))
    /\ WF_vars(Cooldown("s1"))
    /\ WF_vars(LoopDelay("s1"))

SpecSchedulerFair == InitStartup /\ [][NextScheduler]_vars /\ FairScheduler

\* C15: with an empty source list a cycle makes no pass and writes nothing:
\* batch selection leads to the backoff, the backoff sleeps
\* BACKOFF_MIN_SEC..BACKOFF_MAX_SEC seconds and leads back to batch
\* selection, again and again; the scraper is never in a pass and the table
\* stays empty.
C15_EmptyListBacksOff ==
    /\ [][conf.SUBREDDITS = <<>> =>
            /\ SelectBatch("s1") => sched'["s1"].pc = "backoff"
            /\ sched["s1"].pc = "backoff" =>
                  \/ /\ sched'["s1"].pc = "select"
                     /\ now' - now \in BACKOFF_MIN_SEC..BACKOFF_MAX_SEC
                  \/ sched'["s1"].pc = "ended" /\ sched'["s1"].cause = "cancelled"
            /\ sched'["s1"].pc \in {"connect", "select", "backoff", "ended"}
            /\ sched'["s1"].done = <<>>
            /\ rows' = <<>> /\ spc' = spc /\ pending' = pending]_vars
    /\ (conf.SUBREDDITS = <<>> /\ sched["s1"].pc = "select" /\ sched["s1"].cycle < MaxCycles)
          ~> (sched["s1"].pc \in {"backoff", "ended"})
    /\ (conf.SUBREDDITS = <<>> /\ sched["s1"].pc = "backoff")
          ~> (sched["s1"].pc \in {"select", "ended"})

\* No source is configured, and the scheduler is back at batch selection
\* after a backoff.
C15_Witness ==
    /\ conf.SUBREDDITS = <<>>
    /\ sched["s1"].pc = "select"
    /\ sched["s1"].cycle = 1
    /\ now >= BACKOFF_MIN_SEC
    /\ rows = <<>>

\* What the scraper prints for a post it skips.
Skipped == {"no_fields", "no_title", "no_id", "no_timestamp", "too_old", "error"}

\* C16: a raw post that cannot be handled (a field is missing, the
\* timestamp cannot be read, no id can be derived, a parser or the INSERT
\* raises) is skipped alone: the pass stays in its loop with the table as
\* it was, and the post after a skipped one is extracted, filtered and
\* handed to the INSERT like any other.
C16_SkipsOnlyTheFailedPost ==
    [][/\ ((\E raw \in RawPosts(now) : ExtractPost("s1", raw)) /\ printed'["s1"] \in Skipped) =>
            /\ spc'["s1"] = "extract"
            /\ sched' = sched
            /\ rows' = rows
       /\ InsertFails("s1") =>
            /\ spc'["s1"] = "extract"
            /\ sched' = sched
            /\ rows' = rows
       /\ (printed["s1"] \in Skipped /\ sched["s1"].pc = "posts") =>
            /\ spc["s1"] = "extract"
            /\ \A b \in {Bag_ab, Bag_cd} :
                  ExtractPost("s1", Raw(b, PlainStamp(now - SecondsPerHour))) =>
                      /\ printed'["s1"] = "valid"
                      /\ spc'["s1"] = "insert"
                      /\ pending'["s1"].post_id = IF b = Bag_ab THEN Id_ab ELSE <<"c", "d">>]_vars

\* A post was stored, then an INSERT failed or a post was malformed, and the
\* scraper is at the next post of the same pass.
C16_Witness ==
    /\ printed["s1"] = "error"
    /\ spc["s1"] = "extract"
    /\ sched["s1"].pc = "posts"
    /\ Len(rows) = 1

Id_cd == <<"c", "d">>

\* A post one hour old made of the bag b.
Fresh(b) == Raw(b, PlainStamp(now - SecondsPerHour))

\* C17: the post id is the id attribute without its "t3_" prefix when the
\* attribute is there, whatever the link says; else the segment after
\* "/comments/" in the url; else the post is rejected.  No row has an empty
\* or a made-up post id.
C17_PostIdPriority ==
    [][/\ \A b \in {Bag_ab, Bag_ab_again, Bag("GirlsWithGuns", Id_t3_ab, Link_g_cd, Title_Hi, Score_301)} :
            ExtractPost("s1", Fresh(b)) =>
                printed'["s1"] = "valid" /\ pending'["s1"].post_id = Id_ab
       /\ ExtractPost("s1", Fresh(Bag_cd)) =>
                printed'["s1"] = "valid" /\ pending'["s1"].post_id = Id_cd
       /\ \A b \in { Bag("GirlsWithGuns", <<>>, Link_nomarker, Title_Hi, Score_301),
                     Bag("GirlsWithGuns", None, Link_noid, Title_Hi, Score_301),
                     Bag("GirlsWithGuns", Prefix_t3, Link_g_cd, Title_Hi, Score_301) } :
            ExtractPost("s1", Fresh(b)) =>
                printed'["s1"] = "no_id" /\ spc'["s1"] = "extract" /\ rows' = rows
       /\ \A i \in DOMAIN rows' : rows'[i].post_id \in {Id_ab, Id_cd}]_vars

\* Post ab came with its id attribute and post cd with its link only; both
\* are stored, and a post without any id has just been rejected.
C17_Witness ==
    /\ printed["s1"] = "no_id"
    /\ {rows[i].post_id : i \in DOMAIN rows} = {Id_ab, Id_cd}

\* The encodings of the instant t that a timestamp attribute may hold.
Encodings(t) ==
    { IsoTs(t, Sfx_Z), IsoTs(t, Sfx_0000), IsoTs(t + SecondsPerHour, Sfx_0100),
      EpochTs(t), AgoTs(t) }

\* C19: the timestamp of a post is read to the instant it denotes in each
\* encoding: ISO text ending in Z or in a numeric offset without colon,
\* decimal digits counting the seconds from the epoch, and a relative age
\* counted back from now; a post one hour old is then handed to the INSERT
\* with that instant as created_at.
C19_EveryEncodingGivesInstant ==
    [][\A ts \in Encodings(now - SecondsPerHour) :
          ExtractPost("s1", Raw(Bag_cd, [created |-> ts, timeago |-> NoTs]))
              => /\ printed'["s1"] = "valid"
                 /\ pending'["s1"].created_at = now - SecondsPerHour]_vars

\* C18: on an empty table and with the horizon of 4 hours, the post with id
\* "abc123", title "Hello", link "/r/test/comments/abc123/hello", score
\* "1.2k" and the epoch seconds of one hour before now as its creation time
\* is handed to the INSERT with post id "abc123", score 1200, and the link
\* joined to the origin as url.  (The row is then stored with commented =
\* FALSE, see C5.)
C18_EndToEndExample ==
    [][(rows = <<>> /\ ExtractPost("s1", Raw(Bag_abc123,
                           [created |-> EpochTs(now - SecondsPerHour), timeago |-> NoTs])))
          => /\ printed'["s1"] = "valid"
             /\ pending'["s1"] = [subreddit |-> "test", post_id |-> Id_abc123,
                                  post_url |-> Origin \o Link_abc123, score |-> 1200,
                                  created_at |-> now - SecondsPerHour]]_vars

(***************************************************************************)
(* SpecStartup: the scraper process and one commenter process from their   *)
(* start, under every configuration: the scraper with its DB_CONFIG, the   *)
(* commenter with its environment.                                         *)
(***************************************************************************)
NextStartup ==
    \/ NextScheduler
    \/ StartFails("c1")
    \/ \E limit \in Limits, hours \in Horizons : FetchPosts("c1", limit, hours)
    \/ FetchFails("c1")
    \/ \E success \in BOOLEAN : CommentOnPost("c1", success)
    \/ AckPost("c1")
    \/ AckFails("c1")

SpecStartup == InitStartup /\ [][NextStartup]_vars

\* A store credential of the scraper is missing.
ScraperConfigError ==
    \E k \in {"user", "password", "database", "host"} : conf.DB_CONFIG[k] \in {None, <<>>}

\* A store credential of the commenter is not set in its environment.
CommenterConfigError ==
    \E k \in {"DB_HOST", "DB_NAME", "DB_USER", "DB_PASSWORD"} : conf.env[k] = <<>>

\* C20: a missing store credential is fatal at startup.  The scraper whose
\* DB_CONFIG lacks a value never connects, never selects a batch and never
\* inserts: it is about to validate or has ended with the configuration
\* error.  The commenter whose environment lacks a value never fetches,
\* never hands a post to the commenting stage and never acknowledges one.
C20_ConfigErrorIsFatalAtStartup ==
    /\ ScraperConfigError =>
          /\ sched["s1"].pc \in {"connect", "ended"}
          /\ sched["s1"].pc = "ended" => sched["s1"].cause \in {"config", "cancelled"}
          /\ sched["s1"].cycle = 0
          /\ spc["s1"] = "extract" /\ printed["s1"] = "none"
          /\ rows = <<>>
          /\ ~ENABLED ConnectDb("s1") /\ ~ENABLED ConnectFails("s1")
    /\ CommenterConfigError =>
          /\ cpc["c1"] = "idle" /\ posts["c1"] = <<>>
          /\ \A i \in DOMAIN rows : ~rows[i].commented
          /\ \A limit \in Limits, hours \in Horizons : ~ENABLED FetchPosts("c1", limit, hours)
          /\ ~ENABLED FetchFails("c1")

\* The scraper has ended with the configuration error before its first
\* cycle; or the commenter lacks a credential while the table holds a post
\* it would otherwise fetch.
C20_Witness ==
    \/ /\ ScraperConfigError
       /\ sched["s1"].pc = "ended" /\ sched["s1"].cause = "config"
       /\ CommenterConfigError
    \/ /\ CommenterConfigError
       /\ ~ScraperConfigError
       /\ rows # <<>>
       /\ sched["s1"].pc = "delay"

\* C21: the INSERT of a post tells whether it created a row, and a pass
\* counts a post (valid_count += 1, the step FinishPost) exactly when its
\* INSERT added a row, so that the count a pass reports is the number of
\* rows it added.
C21_CountedOnlyWhenRowAdded ==
    [][\A s \in Scrapers : FinishPost(s) => status[s] = "INSERT 0 1"]_vars

\* C22: a pass fetches the description of its source before the listing
\* and stores it, one row per source name: when the posts of a source are
\* listed, and when its pass has returned, the description of that source
\* is stored.
C22_PassStoresSourceDescription ==
    [][(PageLoads("s1") \/ PassEnds("s1")) =>
          \E d \in source_descriptions : d.source = sched["s1"].subreddits[sched["s1"].at]]_vars

\* C23: mark_failed changes nothing: whatever the other commenters have
\* done to the table in the meantime, the acknowledgement of a failure
\* leaves every row, the row it names included, as it was.
C23_MarkFailedChangesNothing ==
    [][\A c \in Claimers : (AckPost(c) /\ ~outcome[c]) => rows' = rows]_vars

(***************************************************************************)
(* SpecBatch: one commenter process runs batch after batch while a scraper *)
(* fills the table.  The event loop runs the commenter: a call it awaits   *)
(* returns or raises, and the run goes on.                                 *)
(***************************************************************************)
NextBatch ==
    \/ Tick(2 * SecondsPerHour, MaxSteps)
    \/ \E raw \in Feed(now) : ScrapePost("s1", raw)
    \/ StartFails("c1")
    \/ \E limit \in Limits, hours \in Horizons : FetchPosts("c1", limit, hours)
    \/ FetchFails("c1")
    \/ LaunchFails("c1")
    \/ \E success \in BOOLEAN : CommentOnPost("c1", success)
    \/ AckPost("c1")
    \/ AckFails("c1")

FairBatch ==
    /\ WF_vars(\E success \in BOOLEAN : CommentOnPost("c1", success))
    /\ WF_vars(AckPost("c1") \/ AckFails("c1"))

SpecBatch == Init /\ [][NextBatch]_vars /\ FairBatch

ParsedTime(raw) ==
    LET first == IF FalsyTs(raw.created) THEN NoDatetime ELSE parse_reddit_timestamp(raw.created)
    IN  IF first.ok THEN first
        ELSE IF FalsyTs(raw.timeago) THEN NoDatetime ELSE parse_reddit_timestamp(raw.timeago)

\* The raw post has a link, a title with a character that is no blank, an
\* id of its own or in its link, a timestamp that parses, and at the
\* instant at its age is not above the horizon.
Storable(raw, at) ==
    /\ raw.permalink \notin {None, <<>>}
    /\ raw.title \notin {None, <<>>}
    /\ \E k \in DOMAIN raw.title : raw.title[k] \notin {" ", "\t", "\n"}
    /\ \/ raw.id \notin {None, <<>>, Prefix_t3}
       \/ /\ raw.id \in {None, <<>>}
          /\ extract_post_id_from_url(raw.permalink) \notin {None, <<>>}
    /\ ParsedTime(raw).ok
    /\ at - ParsedTime(raw).value <= POST_MAX_AGE_HOURS * SecondsPerHour

\* C25: a row is inserted only for a raw post that, when the pass examined
\* it, had a link, a title that is not blank, an id, a timestamp that
\* parses and an age not above the horizon; the INSERT stores the id and
\* the creation time of that post; a raw post that fails one of these is
\* dropped without a write.
C25_OnlyStorablePostsAreInserted ==
    /\ [](\A raw \in RawPosts(now) :
            LET r == ProcessPost(raw.subreddit, raw, now)
            IN  IF Storable(raw, now)
                THEN /\ r.verdict \in {"valid", "error"}
                     /\ r.verdict = "valid" =>
                           /\ r.args.created_at = ParsedTime(raw).value
                           /\ r.args.post_id # <<>>
                ELSE r.verdict \in Skipped \ {"error"} /\ r.args = NoArgs)
    /\ [][/\ (spc["s1"] = "extract" /\ now' = now) =>
                /\ rows' = rows
                /\ IF spc'["s1"] = "insert"
                   THEN \E raw \in RawPosts(now) :
                           /\ Storable(raw, now)
                           /\ pending'["s1"] = ProcessPost(raw.subreddit, raw, now).args
                   ELSE /\ spc'["s1"] = "extract"
                        /\ pending'["s1"] = NoArgs
                        /\ printed'["s1"] \in Skipped
          /\ rows' # rows =>
                /\ InsertPost("s1")
                /\ rows' = Append(rows, rows'[Len(rows')])
                /\ rows'[Len(rows')].post_id = pending["s1"].post_id
                /\ rows'[Len(rows')].post_url = pending["s1"].post_url
                /\ rows'[Len(rows')].created_at = pending["s1"].created_at]_vars

\* A post is stored, and a post with a blank title has just been dropped.
C25_Witness ==
    /\ printed["s1"] = "no_title"
    /\ spc["s1"] = "extract"
    /\ Len(rows) = 2

\* C25 as stated, with the age taken when the row is inserted: the post of
\* a row that the INSERT adds is not older than the horizon at that instant.
C25_AgeAtInsertion ==
    [][(InsertPost("s1") /\ Len(rows') > Len(rows)) =>
          now - rows'[Len(rows')].created_at <= POST_MAX_AGE_HOURS * SecondsPerHour]_vars

(***************************************************************************)
(* SpecShipped: a cycle of the scheduler of one scraper process with the   *)
(* six sources of the shipped SUBREDDITS, from the start of the process to *)
(* the end of the batch, every page loading; the posts of the pages are    *)
(* left out.  A later cycle selects from the same SUBREDDITS.              *)
(***************************************************************************)
InitShipped ==
    /\ now = 0
    /\ rows = <<>>
    /\ spc = [s \in Scrapers |-> "extract"]
    /\ pending = [s \in Scrapers |-> NoArgs]
    /\ status = [s \in Scrapers |-> "none"]
    /\ printed = [s \in Scrapers |-> "none"]
    /\ cpc = [c \in Claimers |-> "idle"]
    /\ posts = [c \in Claimers |-> <<>>]
    /\ idx = [c \in Claimers |-> 0]
    /\ outcome = [c \in Claimers |-> FALSE]
    /\ history = <<>>
    /\ conf = Conf(SUBREDDITS_shipped, DbShipped, EnvSet)
    /\ sched = [s \in Scrapers |-> AtStart]

NextShipped ==
    \/ ConnectDb("s1")
    \/ SelectBatch("s1")
    \/ Shuffle("s1")
    \/ LaunchBrowser("s1")
    \/ PageLoads("s1")
    \/ PassEnds("s1")
    \/ Cooldown("s1")
    \/ CloseBrowser("s1")

SpecShipped == InitShipped /\ [][NextShipped]_vars

\* C26: with the six shipped sources and BATCH_MIN = 13, BATCH_MAX = 31,
\* every batch size that can be drawn exceeds the number of sources; the
\* batch of a cycle is all six sources, each once, and when the batch is
\* through every one of the six has had exactly one pass in that cycle.
C26_ShippedConfigPollsAllSources ==
    [][/\ (sched["s1"].pc = "select" /\ sched'["s1"].pc # "select") =>
            /\ \A n \in BATCH_MIN..BATCH_MAX : n > Len(conf.SUBREDDITS)
            /\ sched'["s1"].pc = "shuffle"
            /\ Len(sched'["s1"].subreddits) = 6
            /\ Elems(sched'["s1"].subreddits) = Elems(SUBREDDITS_shipped)
       /\ (sched["s1"].pc = "shuffle" /\ sched'["s1"].pc # "shuffle") =>
            /\ sched'["s1"].pc = "launch"
            /\ Len(sched'["s1"].subreddits) = 6
            /\ Elems(sched'["s1"].subreddits) = Elems(SUBREDDITS_shipped)
       /\ sched'["s1"].pc \in {"close", "delay"} =>
            /\ Len(sched'["s1"].done) = 6
            /\ Elems(sched'["s1"].done) = Elems(SUBREDDITS_shipped)
            /\ sched'["s1"].done = sched'["s1"].subreddits]_vars

\* A cycle is through: the six sources have had their passes, in another
\* order than the configured one.
C26_Witness ==
    /\ sched["s1"].pc = "delay"
    /\ Len(sched["s1"].done) = 6
    /\ sched["s1"].done # SUBREDDITS_shipped
    /\ sched["s1"].done[6] = "GirlsWithGuns"

\* C27: a run hands at most max_comments_per_run posts to comment_on_post
\* and none of them twice, whatever the scraper and the other commenter do
\* to the table meanwhile: the fetched list has at most limit rows, all of
\* different ids; while the run is in progress its list stays as fetched
\* (no second SELECT) and a post is handed over at position idx only, which
\* starts at 1, stays within the list and moves on by one after each
\* acknowledgement and at no other step.
C27_RunStaysWithinItsFetchedList ==
    [][\A c \in Claimers :
          /\ Claims(c) =>
                /\ idx'[c] = 1
                /\ \A k, m \in DOMAIN posts'[c] : k # m => posts'[c][k].id # posts'[c][m].id
                /\ \A limit \in Limits, hours \in Horizons :
                      FetchPosts(c, limit, hours) => Len(posts'[c]) <= limit
          /\ (cpc[c] # "idle" /\ cpc'[c] # "idle") =>
                /\ posts'[c] = posts[c]
                /\ idx'[c] = IF cpc[c] = "ack" /\ cpc'[c] = "comment" THEN idx[c] + 1 ELSE idx[c]
                /\ idx'[c] \in 1..Len(posts[c])
                /\ cpc[c] = "comment" => cpc'[c] \in {"comment", "ack"}
                /\ cpc[c] = "ack" => cpc'[c] \in {"ack", "comment"}]_vars

\* C27 witness: a run that fetched one post is still at it while the
\* scraper has inserted another post, seen later, and the other commenter,
\* in a run of two posts, has marked that one commented and is at its second
\* post, the one the first run holds.
C27_Witness ==
    /\ cpc["c2"] = "comment" /\ Len(posts["c2"]) = 1
    /\ cpc["c1"] = "comment" /\ Len(posts["c1"]) = 2 /\ idx["c1"] = 2
    /\ posts["c1"][2].id = posts["c2"][1].id
    /\ rows[posts["c1"][1].id].seen_at > posts["c2"][1].seen_at
    /\ rows[posts["c1"][1].id].commented

\* The table differs from the table before in nothing but the commented
\* flag of the rows with the given id, which has the given value.
OnlyFlagOf(before, after, row_id, flag) ==
    /\ DOMAIN after = DOMAIN before
    /\ \A i \in DOMAIN before :
          IF before[i].id = row_id
          THEN /\ after[i].commented = flag
               /\ \A f \in DOMAIN before[i] \ {"commented"} : after[i][f] = before[i][f]
               /\ DOMAIN after[i] = DOMAIN before[i]
          ELSE after[i] = before[i]

\* C28: on every table the processes can produce and for every id, of a row
\* or of none, mark_commented and mark_failed return a table that differs
\* in the commented flag of the row with that id only (TRUE and FALSE):
\* subreddit, post_id, post_url, title, score, created_at and seen_at of
\* that row and every other row are as before; for an id without a row the
\* table is as before.
C28_AckTouchesOnlyTheFlag ==
    \A row_id \in 0..(Len(rows) + 1) :
       /\ OnlyFlagOf(rows, mark_commented(rows, row_id), row_id, TRUE)
       /\ OnlyFlagOf(rows, mark_failed(rows, row_id), row_id, FALSE)
       /\ (\A i \in DOMAIN rows : rows[i].id # row_id)
             => /\ mark_commented(rows, row_id) = rows
                /\ mark_failed(rows, row_id) = rows

\* C28 witness: of two rows one has been marked commented and the other
\* marked failed, and they differ from what the scraper inserted in the
\* flag of the first only.
C28_Witness ==
    /\ Len(rows) = 2
    /\ \E i, j \in DOMAIN rows :
          /\ history[i].last_ack = "success" /\ history[j].last_ack = "failure"
          /\ rows[i].commented /\ ~rows[j].commented
          /\ \E ra, rb \in Feed(rows[i].seen_at) \cup Feed(rows[j].seen_at) :
                LET a == ProcessPost(ra.subreddit, ra, rows[i].seen_at).args
                    b == ProcessPost(rb.subreddit, rb, rows[j].seen_at).args
                IN  /\ rows[i] = [Row(rows[i].id, a, rows[i].seen_at) EXCEPT !.commented = TRUE]
                    /\ rows[j] = Row(rows[j].id, b, rows[j].seen_at)

\* C29: a post the age check of scrape_subreddit keeps at an instant
\* satisfies, as the row the INSERT writes at that instant, the WHERE clause
\* of fetch_next_posts_to_comment for the same horizon.
C29_KeptPostIsWithinFetchHorizon ==
    [][\A s \in Scrapers :
          (spc[s] = "extract" /\ spc'[s] = "insert") =>
             Eligible(Row(Len(rows) + 1, pending'[s], now), now, POST_MAX_AGE_HOURS)]_vars

====
